---- MODULE Spec2Model ----
(***************************************************************************)
(* Model of the media-format extraction backend: the three source files   *)
(* src/server.js, src/unnamed/part_000 and src/unnamed/part_001 are three  *)
(* variants of the same Express application.  The variable `variant`       *)
(* records which of the three files is the running program.                *)
(***************************************************************************)
EXTENDS Integers, Sequences, FiniteSets, TLC

VARIABLES
    variant,      \* which source file is running
    mode,         \* which entry point is exercised: "normalize", "size", "assemble", "http"
    rawFormats,   \* normalizeAndFilterFormats: the argument
    out,          \* normalizeAndFilterFormats: the returned array (NotCalled before the call)
    bytes,        \* humanFileSize: the argument
    text,         \* humanFileSize: the returned string (NotCalled before the call)
    resolved,     \* map-and-sort step: the candidates after size resolution
    mapped,       \* map-and-sort step: the response entries (NotCalled before the step)
    API_KEY,      \* process.env.API_KEY || null
    ENABLE_CACHING, \* !!REDIS_URL (constant false in part_001)
    cache,        \* the redis store: key -> stored string or NoEntry
    req,          \* per request: the query and headers as received
    pc,           \* per request: the await point the handler is suspended at
    meta,         \* per request: what the extractor call produced
    formats,      \* per request: the candidate array (mutated by the probes)
    probe,        \* per request: per candidate index, the state of its size probe
    batch,        \* per request: the array toCheck and the loop variable i of the probe loop
    payload,      \* per request: the payload built after the probes
    res,          \* per request: the response sent (status and body), NoResponse before
    hist          \* per request: what the handler did (cache calls, probes, failures)

vars == <<variant, mode, rawFormats, out, bytes, text, resolved, mapped, API_KEY,
          ENABLE_CACHING, cache, req, pc, meta, formats, probe, batch, payload, res, hist>>

Variants == {"server", "part_000", "part_001"}

NotCalled == [t |-> "notcalled"]

\* The value a call returned.
Ret(x) == [t |-> "returned", v |-> x]

-----------------------------------------------------------------------------
(* JavaScript values.  A value is tagged with its type so that the          *)
(* truthiness tests of the code can be evaluated as the engine does.        *)

Undefined == [t |-> "undefined"]
Null == [t |-> "null"]
NaN == [t |-> "nan"]
Str(s) == [t |-> "string", v |-> s]
Num(n) == [t |-> "number", v |-> n]

IsStr(x) == x.t = "string"
IsNum(x) == x.t = "number"

\* ToBoolean: undefined, null, NaN, "" and 0 are falsy.
Truthy(x) ==
    CASE x.t = "undefined" -> FALSE
      [] x.t = "null" -> FALSE
      [] x.t = "nan" -> FALSE
      [] x.t = "string" -> x.v # ""
      [] x.t = "number" -> x.v # 0
      [] OTHER -> TRUE

\* a || b
JsOr(a, b) == IF Truthy(a) THEN a ELSE b

\* String(x) for the values the code stringifies.
JsString(x) ==
    CASE x.t = "string" -> x.v
      [] x.t = "number" -> ToString(x.v)
      [] x.t = "undefined" -> "undefined"
      [] x.t = "null" -> "null"
      [] OTHER -> "NaN"

-----------------------------------------------------------------------------
(* Strings, character by character.                                         *)

At(s, k) == SubSeq(s, k, k)

Lower == "abcdefghijklmnopqrstuvwxyz"
Upper == "ABCDEFGHIJKLMNOPQRSTUVWXYZ"
Digits == "0123456789"

\* 0 when c does not occur in alphabet s, else its position.
IndexIn(c, s) ==
    IF \E k \in 1..Len(s) : At(s, k) = c
    THEN CHOOSE k \in 1..Len(s) : At(s, k) = c
    ELSE 0

IsAlpha(c) == IndexIn(c, Lower) > 0 \/ IndexIn(c, Upper) > 0
IsDigit(c) == IndexIn(c, Digits) > 0
IsSpace(c) == c \in {" ", "\t", "\n", "\r"}

UpperChar(c) == IF IndexIn(c, Lower) > 0 THEN At(Upper, IndexIn(c, Lower)) ELSE c
LowerChar(c) == IF IndexIn(c, Upper) > 0 THEN At(Lower, IndexIn(c, Upper)) ELSE c

RECURSIVE toUpperCase(_)
toUpperCase(s) ==
    IF s = "" THEN "" ELSE UpperChar(At(s, 1)) \o toUpperCase(SubSeq(s, 2, Len(s)))

RECURSIVE toLowerCase(_)
toLowerCase(s) ==
    IF s = "" THEN "" ELSE LowerChar(At(s, 1)) \o toLowerCase(SubSeq(s, 2, Len(s)))

\* String.prototype.trim
RECURSIVE trimStart(_)
trimStart(s) ==
    IF s # "" /\ IsSpace(At(s, 1)) THEN trimStart(SubSeq(s, 2, Len(s))) ELSE s

RECURSIVE trimEnd(_)
trimEnd(s) ==
    IF s # "" /\ IsSpace(At(s, Len(s))) THEN trimEnd(SubSeq(s, 1, Len(s) - 1)) ELSE s

trim(s) == trimEnd(trimStart(s))

\* String.prototype.includes
includes(s, sub) ==
    \E k \in 1..(Len(s) - Len(sub) + 1) : SubSeq(s, k, k + Len(sub) - 1) = sub

\* Array.prototype.join(" ") on an array of strings
RECURSIVE join(_)
join(parts) ==
    IF parts = <<>> THEN ""
    ELSE IF Len(parts) = 1 THEN parts[1]
    ELSE parts[1] \o " " \o join(Tail(parts))

-----------------------------------------------------------------------------
(* new URL(s): the WHATWG parser of the url module, as far as the code      *)
(* depends on it: whether the string parses without a base, and the         *)
(* protocol of the parsed URL.                                              *)

SpecialSchemes == {"http", "https", "ftp", "ws", "wss"}

IsSchemeChar(c) == IsAlpha(c) \/ IsDigit(c) \/ c \in {"+", "-", "."}

ColonAt(s) == IndexIn(":", s)

SchemeOf(s) == toLowerCase(SubSeq(s, 1, ColonAt(s) - 1))

HasScheme(s) ==
    /\ ColonAt(s) > 1
    /\ IsAlpha(At(s, 1))
    /\ \A k \in 1..(ColonAt(s) - 1) : IsSchemeChar(At(s, k))

RECURSIVE stripSlashes(_)
stripSlashes(s) ==
    IF s # "" /\ At(s, 1) \in {"/", "\\"} THEN stripSlashes(SubSeq(s, 2, Len(s))) ELSE s

\* The prefix of rest up to the first of "/", "?" and "#".
RECURSIVE UpToPath(_, _)
UpToPath(rest, k) ==
    IF k > Len(rest) \/ At(rest, k) \in {"/", "?", "#"} THEN SubSeq(rest, 1, k - 1)
    ELSE UpToPath(rest, k + 1)

\* The host of a special-scheme URL: what follows the slashes, up to the path.
HostOf(s) == UpToPath(stripSlashes(SubSeq(s, ColonAt(s) + 1, Len(s))), 1)

ValidHost(h) == h # "" /\ \A k \in 1..Len(h) : ~IsSpace(At(h, k))

ParsesTrimmed(s) ==
    HasScheme(s) /\ (SchemeOf(s) \in SpecialSchemes => ValidHost(HostOf(s)))

\* TRUE when new URL(raw) returns, FALSE when it throws.
\* The variant accepts every string.
URLParses_any(raw) == TRUE

URLParses(raw) == ParsesTrimmed(trim(raw))

\* parsed.protocol
URLProtocol(raw) == SchemeOf(trim(raw)) \o ":"

-----------------------------------------------------------------------------
(* Raw format records of the extractor and the candidates made from them.   *)
(* A raw record is an object whose properties may each be absent            *)
(* (Undefined); an element of meta.formats may also be null.                *)

Raw(url, vcodec, acodec, format, format_note, height, ext, filesize, filesize_approx) ==
    [t |-> "object", url |-> url, vcodec |-> vcodec, acodec |-> acodec,
     format |-> format, format_note |-> format_note, height |-> height,
     ext |-> ext, filesize |-> filesize, filesize_approx |-> filesize_approx]

ImageExts == {"jpg", "jpeg", "png", "webp", "gif"}

\* The guards `if (!f || !f.url) continue` and `if (!f?.url) continue`.
HasUrl(f) == f.t = "object" /\ Truthy(f.url)

\* The try block around new URL(f.url): TRUE when the record passes it.
\* part_001 only requires the url to parse; the other two also check the protocol.
PassesUrlCheck_part000(f) ==
    URLParses(JsString(f.url)) /\ URLProtocol(JsString(f.url)) \in {"http:", "https:"}

PassesUrlCheck_server(f) ==
    URLParses(JsString(f.url)) /\ URLProtocol(JsString(f.url)) \in {"http:", "https:"}

PassesUrlCheck_part001(f) == URLParses(JsString(f.url))

PassesUrlCheck(v, f) ==
    CASE v = "part_000" -> PassesUrlCheck_part000(f)
      [] v = "server" -> PassesUrlCheck_server(f)
      [] OTHER -> PassesUrlCheck_part001(f)

\* seen.has(f.url), with a variant that never reports a duplicate.
SeenHas_never(seen, f) == FALSE

SeenHas(seen, f) == f.url \in seen

\* The codec test shared by the three files.
AudioByCodec(f) ==
    \/ (IsStr(f.vcodec) /\ f.vcodec.v = "none")
    \/ (Truthy(f.acodec) /\ ~Truthy(f.vcodec))

\* The type assignments: each `if` overwrites the result of the ones before it.
TypeOf_part000(f) ==
    LET t1 == IF AudioByCodec(f) THEN "audio" ELSE "video"
        t2 == IF Truthy(f.format) /\ includes(toLowerCase(JsString(f.format)), "audio")
              THEN "audio" ELSE t1
        t3 == IF Truthy(f.ext) /\ toLowerCase(JsString(f.ext)) \in ImageExts
              THEN "image" ELSE t2
    IN t3

TypeOf_server(f) ==
    LET t1 == IF AudioByCodec(f) THEN "audio" ELSE "video"
        t2 == IF IsStr(f.format) /\ includes(f.format.v, "audio") THEN "audio" ELSE t1
    IN t2

TypeOf_part001(f) == IF AudioByCodec(f) THEN "audio" ELSE "video"

TypeOf(v, f) ==
    CASE v = "part_000" -> TypeOf_part000(f)
      [] v = "server" -> TypeOf_server(f)
      [] OTHER -> TypeOf_part001(f)

\* f.ext?.toUpperCase() || "Unknown"   and   f.ext ? f.ext.toUpperCase() : "Unknown"
ExtOrUnknown(f) ==
    IF Truthy(f.ext) THEN toUpperCase(JsString(f.ext)) ELSE "Unknown"

\* part_000: labelParts joined by a space, else the extension, else "Unknown".
NoteAndHeight(f) ==
    (IF Truthy(f.format_note) THEN <<trim(JsString(f.format_note))>> ELSE <<>>)
    \o (IF Truthy(f.height) THEN <<JsString(f.height) \o "p">> ELSE <<>>)

WithFormat(f, parts) ==
    IF Len(parts) = 0 /\ Truthy(f.format) THEN <<JsString(f.format)>> ELSE parts

JoinedOr(joined, f) == IF joined # "" THEN joined ELSE ExtOrUnknown(f)

Label_part000(f) == JoinedOr(join(WithFormat(f, NoteAndHeight(f))), f)

\* server.js: the template string is trimmed and used as it is, also when empty.
Label_server(f) ==
    IF Truthy(f.format_note)
    THEN trim(JsString(f.format_note) \o " "
                 \o (IF Truthy(f.height) THEN JsString(f.height) \o "p" ELSE ""))
    ELSE IF Truthy(f.height) THEN JsString(f.height) \o "p" ELSE ExtOrUnknown(f)

Label_part001(f) ==
    IF Truthy(f.format_note)
    THEN trim(JsString(f.format_note) \o " "
                 \o (IF Truthy(f.height) THEN JsString(f.height) \o "p" ELSE ""))
    ELSE IF Truthy(f.height) THEN JsString(f.height) \o "p" ELSE ExtOrUnknown(f)

LabelOf(v, f) ==
    CASE v = "part_000" -> Label_part000(f)
      [] v = "server" -> Label_server(f)
      [] OTHER -> Label_part001(f)

\* The object pushed to out.  width, tbr and format_id (part_000) are copied
\* and never read again; height is read by the mapping of part_000 only.
Candidate(v, f) ==
    [label |-> LabelOf(v, f),
     url |-> JsString(f.url),
     type |-> TypeOf(v, f),
     filesize |-> JsOr(JsOr(f.filesize, f.filesize_approx), Null),
     ext |-> JsOr(f.ext, Null),
     height |-> IF v = "part_000" THEN JsOr(f.height, Null) ELSE Undefined]

\* One iteration of `for (const f of rawFormats)`: st = [out, seen].
NormalizeStep(v, st, f) ==
    IF ~HasUrl(f) THEN st
    ELSE IF ~PassesUrlCheck(v, f) THEN st
    ELSE IF SeenHas(st.seen, f) THEN st
    ELSE [out |-> Append(st.out, Candidate(v, f)), seen |-> st.seen \cup {f.url}]

RECURSIVE NormalizeLoop(_, _, _, _)
NormalizeLoop(v, raw, k, st) ==
    IF k > Len(raw) THEN st
    ELSE NormalizeLoop(v, raw, k + 1, NormalizeStep(v, st, raw[k]))

normalizeAndFilterFormats(v, raw) ==
    NormalizeLoop(v, raw, 1, [out |-> <<>>, seen |-> {}]).out

-----------------------------------------------------------------------------
(* humanFileSize.  Numbers are integers below 2^31 in magnitude (the range  *)
(* of the checker's integers), so the value after k divisions by 1024 is    *)
(* kept exactly as the fraction a / den with den = 1024^k.                  *)

thresh == 1024

units == <<"KB", "MB", "GB", "TB">>

Abs(n) == IF n < 0 THEN -n ELSE n

\* isNaN(x): x converts to NaN.  Strings of the inputs are non-numeric unless
\* they consist of digits only.
IsAllDigits(s) == s # "" /\ \A k \in 1..Len(s) : IsDigit(At(s, k))

RECURSIVE DigitsToNat(_)
DigitsToNat(s) ==
    IF s = "" THEN 0
    ELSE 10 * DigitsToNat(SubSeq(s, 1, Len(s) - 1)) + (IndexIn(At(s, Len(s)), Digits) - 1)

isNaN(x) ==
    CASE x.t = "number" -> FALSE
      [] x.t = "null" -> FALSE
      [] x.t = "string" -> ~(x.v = "" \/ IsAllDigits(x.v))
      [] OTHER -> TRUE

\* ToNumber for the values that are not NaN.
ToNumber(x) ==
    CASE x.t = "number" -> x.v
      [] x.t = "string" -> DigitsToNat(x.v)
      [] OTHER -> 0

\* The do-while loop: den is 1024^(u+1) on entry of an iteration's test.
RECURSIVE DoWhile(_, _, _)
DoWhile(a, den, u) ==
    IF a \div den >= thresh /\ u < Len(units) - 1
    THEN DoWhile(a, den * thresh, u + 1)
    ELSE [den |-> den, u |-> u]

\* (a / den).toFixed(1) for a >= 0: the decimal with one fraction digit nearest
\* to a / den, the larger one on a tie.  The sum 10 * a + den / 2 is split so
\* that no intermediate value leaves the integer range.
Tenths(ip, rem, e) ==
    10 * ip + ((10 * (rem \div e) + ((10 * (rem % e)) \div e) + (thresh \div 2)) \div thresh)

OneDecimal(tenths) == ToString(tenths \div 10) \o "." \o ToString(tenths % 10)

toFixed1(a, den) == OneDecimal(Tenths(a \div den, a % den, den \div thresh))

\* The return after the loop left den and u.
Formatted(n, r) ==
    (IF n < 0 THEN "-" ELSE "") \o toFixed1(Abs(n), r.den) \o " " \o units[r.u + 1]

HumanNumber(b, n) ==
    IF Abs(n) < thresh THEN JsString(b) \o " B"
    ELSE Formatted(n, DoWhile(Abs(n), thresh, 0))

humanFileSize(b) ==
    IF ~Truthy(b) \/ isNaN(b) THEN "Unknown" ELSE HumanNumber(b, ToNumber(b))

-----------------------------------------------------------------------------
(* parseFloat: the longest prefix that is a decimal literal, as the         *)
(* fraction num / den; NaN when there is none.                              *)

RECURSIVE DigitRun(_, _)
DigitRun(s, k) ==
    IF k <= Len(s) /\ IsDigit(At(s, k)) THEN DigitRun(s, k + 1) ELSE k

RECURSIVE Pow10(_)
Pow10(k) == IF k = 0 THEN 1 ELSE 10 * Pow10(k - 1)

\* The literal of s read from position start on: integer digits up to intEnd,
\* and a fraction up to fracEnd when a "." follows them.
Literal(s, neg, start, intEnd, fracEnd) ==
    [neg |-> neg,
     int |-> SubSeq(s, start, intEnd - 1),
     frac |-> SubSeq(s, intEnd + 1, fracEnd - 1)]

FractionEnd(s, intEnd) ==
    IF intEnd <= Len(s) /\ At(s, intEnd) = "." THEN DigitRun(s, intEnd + 1) ELSE intEnd

ScanFraction(s, neg, start, intEnd) == Literal(s, neg, start, intEnd, FractionEnd(s, intEnd))

ScanFrom(s, neg, start) == ScanFraction(s, neg, start, DigitRun(s, start))

Scan(s) ==
    ScanFrom(s, s # "" /\ At(s, 1) = "-", IF s # "" /\ At(s, 1) \in {"-", "+"} THEN 2 ELSE 1)

ValueOf(lit) ==
    IF lit.int = "" /\ lit.frac = "" THEN [nan |-> TRUE]
    ELSE [nan |-> FALSE,
          num |-> (IF lit.neg THEN -1 ELSE 1)
                    * (DigitsToNat(lit.int) * Pow10(Len(lit.frac)) + DigitsToNat(lit.frac)),
          den |-> Pow10(Len(lit.frac))]

parseFloat(str) == ValueOf(Scan(trimStart(str)))

\* x || 0 for a number x read by parseFloat
OrZero(r) ==
    IF r.nan \/ r.num = 0 THEN [num |-> 0, den |-> 1] ELSE [num |-> r.num, den |-> r.den]

\* parseFloat(x) || 0
ParseOrZero(str) == OrZero(parseFloat(str))

-----------------------------------------------------------------------------
(* The mapping of the candidates to the response entries and, in part_000,  *)
(* the sort of the entries.                                                 *)

MapEntry_part000(f) ==
    [label |-> IF f.label # "" THEN f.label
               ELSE IF Truthy(f.height) THEN JsString(f.height) \o "p"
               ELSE IF Truthy(f.ext) THEN JsString(f.ext) ELSE "file",
     size |-> humanFileSize(f.filesize),
     url |-> f.url,
     type |-> IF f.type # "" THEN f.type ELSE "video"]

MapEntry_server(f) ==
    [label |-> f.label, size |-> humanFileSize(f.filesize), url |-> f.url, type |-> f.type]

MapEntry(v, f) == IF v = "part_000" THEN MapEntry_part000(f) ELSE MapEntry_server(f)

\* The sign of the comparator's result: -1, 0 or 1.  The sizes compared are
\* the numbers parseFloat reads from the formatted size strings.
Sign(d) == IF d < 0 THEN -1 ELSE IF d > 0 THEN 1 ELSE 0

\* bs - as
Difference(as, bs) == Sign(bs.num * as.den - as.num * bs.den)

Compare(a, b) ==
    IF a.type = b.type
    THEN Difference(ParseOrZero(a.size), ParseOrZero(b.size))
    ELSE IF a.type = "video" THEN -1
    ELSE IF b.type = "video" THEN 1
    ELSE IF a.type = "audio" THEN -1
    ELSE 1

\* Array.prototype.sort is stable: an element is placed after every element
\* already placed that does not compare greater than it.
RECURSIVE InsertSorted(_, _)
InsertSorted(sorted, e) ==
    IF sorted = <<>> THEN <<e>>
    ELSE IF Compare(sorted[Len(sorted)], e) <= 0 THEN Append(sorted, e)
    ELSE Append(InsertSorted(SubSeq(sorted, 1, Len(sorted) - 1), e), sorted[Len(sorted)])

RECURSIVE SortLoop(_, _, _)
SortLoop(arr, k, sorted) ==
    IF k > Len(arr) THEN sorted ELSE SortLoop(arr, k + 1, InsertSorted(sorted, arr[k]))

sort(arr) == SortLoop(arr, 1, <<>>)

\* formats.map(...) followed, in part_000, by mapped.sort(...).
Map(v, fs) == [k \in 1..Len(fs) |-> MapEntry(v, fs[k])]

SortIfSorting(v, entries) == IF v = "part_000" THEN sort(entries) ELSE entries

MapAndSort(v, fs) == SortIfSorting(v, Map(v, fs))

-----------------------------------------------------------------------------
(* Specification SpecNormalize: normalizeAndFilterFormats applied to        *)
(* bounded inputs, in each of the three files.                              *)

MaxRaw == 3

U == Undefined

\* Single records with every combination of present and absent fields.
RichRecords ==
    {Raw(url, vcodec, acodec, format, note, height, ext, size, U) :
        url \in {U, Str("https://a/x.mp4"), Str("ftp://host/f"), Str("not a url")},
        vcodec \in {U, Str("none"), Str("h264")},
        acodec \in {U, Str("mp4a")},
        format \in {U, Str("audio only"), Str("137 - 1280x720")},
        note \in {U, Str(" "), Str("HD")},
        height \in {U, Num(720)},
        ext \in {U, Str("png"), Str("mp4")},
        size \in {U, Num(1000)}}

\* Records for the sequences: few fields vary, the urls repeat.
SeqRecords ==
    {Raw(url, U, U, U, U, height, U, U, U) :
        url \in {Str("https://a/x.mp4"), Str("http://b/y")},
        height \in {Num(720), Num(480)}}
    \cup {Raw(Str("ftp://host/f"), U, U, U, U, Num(720), U, U, U),
          Raw(Str("not a url"), U, U, U, U, Num(720), U, U, U),
          Raw(U, U, U, U, U, Num(720), U, U, U), Null}

NormalizeInputs ==
    {<<f>> : f \in RichRecords} \cup UNION {[1..n -> SeqRecords] : n \in 0..MaxRaw}

normVars == <<rawFormats, out>>
sizeVars == <<bytes, text>>
asmVars == <<resolved, mapped>>
httpVars ==
    <<API_KEY, ENABLE_CACHING, cache, req, pc, meta, formats, probe, batch, payload, res, hist>>

NormIdle == rawFormats = NotCalled /\ out = NotCalled
SizeIdle == bytes = NotCalled /\ text = NotCalled
AsmIdle == resolved = NotCalled /\ mapped = NotCalled
HttpIdle ==
    /\ API_KEY = NotCalled /\ ENABLE_CACHING = NotCalled /\ cache = NotCalled
    /\ req = NotCalled /\ pc = NotCalled /\ meta = NotCalled /\ formats = NotCalled
    /\ probe = NotCalled /\ batch = NotCalled /\ payload = NotCalled /\ res = NotCalled /\ hist = NotCalled

InitNormalize ==
    /\ mode = "normalize"
    /\ variant \in Variants
    /\ rawFormats \in NormalizeInputs
    /\ out = NotCalled
    /\ SizeIdle /\ AsmIdle /\ HttpIdle

CallNormalize ==
    /\ mode = "normalize"
    /\ out.t = "notcalled"
    /\ out' = Ret(normalizeAndFilterFormats(variant, rawFormats))
    /\ UNCHANGED <<variant, mode, rawFormats, sizeVars, asmVars, httpVars>>

NextNormalize == CallNormalize

SpecNormalize == InitNormalize /\ [][NextNormalize]_vars

\* A raw record the loop does not skip before the duplicate test.
Accepted(v, f) == HasUrl(f) /\ PassesUrlCheck(v, f)

\* The raw records that are accepted and carry the url string u, by index.
OccurrencesOf(u) ==
    {k \in 1..Len(rawFormats) :
        Accepted(variant, rawFormats[k]) /\ JsString(rawFormats[k].url) = u}

FirstOccurrence(u) ==
    CHOOSE k \in OccurrencesOf(u) : \A j \in OccurrencesOf(u) : k <= j

Returned == mode = "normalize" /\ out.t = "returned"

\* C1: the output of normalizeAndFilterFormats holds no two candidates with
\* the same url, and the candidate kept for a url is the one derived from the
\* first accepted record with that url (its label, type and declared size).
C1_DedupFirstWins ==
    Returned =>
        /\ \A a, b \in 1..Len(out.v) : a # b => out.v[a].url # out.v[b].url
        /\ \A a \in 1..Len(out.v) :
              /\ OccurrencesOf(out.v[a].url) # {}
              /\ LET f == rawFormats[FirstOccurrence(out.v[a].url)]
                 IN /\ out.v[a].label = LabelOf(variant, f)
                    /\ out.v[a].type = TypeOf(variant, f)
                    /\ out.v[a].filesize = JsOr(JsOr(f.filesize, f.filesize_approx), Null)

\* C1 witness: a url given twice, with heights 720 then 480, produced exactly
\* one candidate, labelled "720p".
C1_Witness ==
    /\ Returned
    /\ Len(rawFormats) = 2
    /\ \A k \in 1..2 : rawFormats[k].t = "object"
    /\ Accepted(variant, rawFormats[1])
    /\ rawFormats[1].url = Str("https://a/x.mp4") /\ rawFormats[1].height = Num(720)
    /\ rawFormats[2].url = Str("https://a/x.mp4") /\ rawFormats[2].height = Num(480)
    /\ Len(out.v) = 1 /\ out.v[1].label = "720p"

\* C2: in every variant a raw record with no url, with a url that does not
\* parse, or with a scheme other than http and https is excluded from the
\* output: no candidate carries its url.
C2_SchemeFilter ==
    Returned =>
        \A a \in 1..Len(out.v) :
            /\ URLParses(out.v[a].url)
            /\ URLProtocol(out.v[a].url) \in {"http:", "https:"}

\* The four classification rules in priority order, first match wins.
RulesInPriorityOrder(f) ==
    IF (IsStr(f.vcodec) /\ f.vcodec.v = "none") \/ (Truthy(f.acodec) /\ ~Truthy(f.vcodec))
    THEN "audio"
    ELSE IF IsStr(f.format) /\ includes(toLowerCase(f.format.v), "audio") THEN "audio"
    ELSE IF IsStr(f.ext) /\ toLowerCase(f.ext.v) \in ImageExts THEN "image"
    ELSE "video"

\* C5: the type of every candidate is the result of the four classification
\* rules evaluated in priority order on the record it is derived from.
C5_ClassificationPriority ==
    Returned =>
        \A a \in 1..Len(out.v) :
            out.v[a].type = RulesInPriorityOrder(rawFormats[FirstOccurrence(out.v[a].url)])

\* C10: the label of every produced candidate is a non-empty string.
C10_LabelNonEmpty ==
    Returned => \A a \in 1..Len(out.v) : out.v[a].label # ""

-----------------------------------------------------------------------------
(* Specification SpecSize: humanFileSize applied to bounded inputs.         *)

MaxSmall == 1100

LargeSizes ==
    {1536, 1587, 1588, 921600, 1048575, 1048576, 1572864, 2097152,
     1073741823, 1073741824, 1610612736, 2147483647}

HumanInputs ==
    {Undefined, Null, NaN, Str("abc"), Str("")}
    \cup {Num(n) : n \in (0 - MaxSmall)..MaxSmall}
    \cup {Num(n) : n \in LargeSizes}
    \cup {Num(0 - n) : n \in LargeSizes}

InitSize ==
    /\ mode = "size"
    /\ variant \in Variants
    /\ bytes \in HumanInputs
    /\ text = NotCalled
    /\ NormIdle /\ AsmIdle /\ HttpIdle

CallHumanFileSize ==
    /\ mode = "size"
    /\ text.t = "notcalled"
    /\ text' = Ret(humanFileSize(bytes))
    /\ UNCHANGED <<variant, mode, bytes, normVars, asmVars, httpVars>>

NextSize == CallHumanFileSize

SpecSize == InitSize /\ [][NextSize]_vars

\* The unit reached by dividing by 1024 until the magnitude is below 1024 or
\* the unit is TB: the k in 1..4 with 1024^k <= a, and a < 1024^(k+1) or k = 4.
RECURSIVE UnitOf(_, _)
UnitOf(a, k) ==
    IF k < 4 /\ a \div thresh >= thresh THEN UnitOf(a \div thresh, k + 1) ELSE k

\* C8: humanFileSize returns "Unknown" exactly for null, undefined and
\* non-numeric input; for a number of magnitude below 1024 (0 included) the
\* integer followed by " B"; for larger numbers the value divided by 1024 up
\* to the unit reached, with one decimal place and the unit.
C8_HumanFileSize ==
    (mode = "size" /\ text.t = "returned") =>
        /\ (text.v = "Unknown") <=> (bytes.t # "number")
        /\ (bytes.t = "number" /\ Abs(bytes.v) < 1024) => text.v = ToString(bytes.v) \o " B"
        /\ (bytes.t = "number" /\ Abs(bytes.v) >= 1024) =>
              /\ \E k \in 1..4 :
                    /\ k = UnitOf(Abs(bytes.v), 1)
                    /\ SubSeq(text.v, Len(text.v) - 2, Len(text.v)) = " " \o units[k]
              /\ At(text.v, Len(text.v) - 4) = "."
        /\ bytes = Num(1024) => text.v = "1.0 KB"
        /\ bytes = Num(1536) => text.v = "1.5 KB"

-----------------------------------------------------------------------------
(* Specification SpecAssemble: the map-and-sort step of the handler applied *)
(* to bounded candidate arrays.                                             *)

MaxCand == 3

CandUrl(k) == "https://cdn/" \o ToString(k)

AssembleSizes == {Null, Num(512), Num(921600), Num(2097152)}

\* Candidate arrays as normalization and size resolution leave them: distinct
\* urls, a type, a non-empty label, a size that is null or a positive number.
AssembleInputs(n) ==
    {[k \in 1..n |-> [label |-> "L" \o ToString(k), url |-> CandUrl(k),
                      type |-> ty[k], filesize |-> sz[k], ext |-> Null,
                      height |-> Null]] :
        ty \in [1..n -> {"video", "audio", "image"}], sz \in [1..n -> AssembleSizes]}

InitAssemble ==
    /\ mode = "assemble"
    /\ variant \in Variants
    /\ \E n \in 0..MaxCand : resolved \in AssembleInputs(n)
    /\ mapped = NotCalled
    /\ NormIdle /\ SizeIdle /\ HttpIdle

CallMapAndSort ==
    /\ mode = "assemble"
    /\ mapped.t = "notcalled"
    /\ mapped' = Ret(MapAndSort(variant, resolved))
    /\ UNCHANGED <<variant, mode, resolved, normVars, sizeVars, httpVars>>

NextAssemble == CallMapAndSort

SpecAssemble == InitAssemble /\ [][NextAssemble]_vars

\* The resolved size in bytes of the candidate an entry was made from,
\* an unknown size counting as zero.
BytesOf(e) ==
    LET f == CHOOSE c \in {resolved[k] : k \in 1..Len(resolved)} : c.url = e.url
    IN IF f.filesize.t = "number" THEN f.filesize.v ELSE 0

TypeRank(e) == CASE e.type = "video" -> 0 [] e.type = "audio" -> 1 [] OTHER -> 2

\* C6: in a sorted response (part_000) video entries precede audio entries,
\* which precede image entries, and of two entries of the same type the one
\* with the larger resolved size in bytes comes first.
C6_SortedByTypeThenBytes ==
    (mode = "assemble" /\ variant = "part_000" /\ mapped.t = "returned") =>
        \A a, b \in 1..Len(mapped.v) :
            a < b =>
                /\ TypeRank(mapped.v[a]) <= TypeRank(mapped.v[b])
                /\ mapped.v[a].type = mapped.v[b].type =>
                      BytesOf(mapped.v[a]) >= BytesOf(mapped.v[b])

-----------------------------------------------------------------------------
(* The handler of GET /api/extract.  A request is suspended at the await    *)
(* points of the handler; pc names the one it is at:                        *)
(*   "arriving"  received, the handler has not run yet                      *)
(*   "cacheGet"  await redis.get(cacheKey)                                  *)
(*   "extract"   await execFileAsync(...)                                   *)
(*   "probing"   await Promise.all(...) over the size probes                *)
(*   "cacheSet"  await redis.set(...)                                       *)
(*   "done"      the handler returned                                       *)
(*   "rejected"  an exception left the handler: its promise rejected and    *)
(*               the handler sent no response                               *)
(*   "absent"    the request is not part of the run                         *)

MaxReqs == 2
MaxFormats == 7

Reqs == 1..MaxReqs

concurrency == 6
ProbeCap == 6
TTL == 300

\* The pages requested: one with a few formats, one with many, one with a
\* single format.
TargetUrl == "https://site/watch?v=1"
BigUrl == "https://site/playlist?list=7"
ClipUrl == "https://site/clip"

\* `extract:${targetUrl}`
CacheKey(q) == "extract:" \o JsString(q.url)

CacheKeys == {"extract:" \o TargetUrl, "extract:" \o BigUrl, "extract:" \o ClipUrl}

\* What redis.get resolves with for a key that holds nothing: null, whether no
\* entry was ever stored or the entry's time to live has elapsed.
NoEntry == [t |-> "null", was |-> "never"]
Expired == [t |-> "null", was |-> "expired"]

\* JSON.stringify(payload): properties whose value is undefined are left out.
JSONStringify(p) ==
    [t |-> "json",
     v |-> [k \in {n \in DOMAIN p : p[n].t # "undefined"} |-> p[k]]]

\* JSON.parse(s) throws unless s is a JSON text.
JSONParses(s) == s.t = "json"
JSONParse(s) == s.v

\* The requests: the url query parameter, the x-api-key header, the apikey
\* query parameter.
RequestInputs ==
    {[url |-> u, headerKey |-> hk, queryKey |-> qk] :
        u \in {Undefined, Str("not a url"), Str(TargetUrl)},
        hk \in {Undefined, Str("k"), Str("wrong")},
        qk \in {Undefined, Str("k")}}

\* part_000: the API key check.  The other two files have none.
ApiKeyRejects_part000(q) ==
    /\ Truthy(API_KEY)
    /\ LET key == JsOr(q.headerKey, q.queryKey)
       IN ~Truthy(key) \/ key # API_KEY

ApiKeyRejects(v, q) == v = "part_000" /\ ApiKeyRejects_part000(q)

\* ENABLE_CACHING && redis
CachingOn == ENABLE_CACHING

Response(status, body) == [status |-> status, body |-> body]

ErrorBody(msg) == [error |-> msg]

\* error.message || "Failed to extract formats" (server.js, part_001);
\* the fixed message (part_000).
CatchBody_server(msg) == ErrorBody(IF msg # "" THEN msg ELSE "Failed to extract formats")

CatchBody_part000(msg) == ErrorBody("Failed to extract formats")

CatchBody(v, msg) == IF v = "part_000" THEN CatchBody_part000(msg) ELSE CatchBody_server(msg)

\* What a request has done so far: the calls it made, the value its redis.get
\* resolved with, the diagnostic of its failed extraction.
NewHist ==
    [gets |-> 0, sets |-> 0, getFailed |-> FALSE, setFailed |-> FALSE, execs |-> 0,
     got |-> NotCalled, diagnostic |-> "", heads |-> <<>>, returned |-> <<>>]

-----------------------------------------------------------------------------
(* What the extractor can produce.                                          *)

\* A record of meta.formats with url number k.
RawAt(k, height, size) ==
    Raw(Str(CandUrl(k)), U, U, U, U, height, U, size, U)

Unsized(n) == [k \in 1..n |-> RawAt(k, Num(720), U)]

\* The formats the extractor reports for a page.
FormatLists(url) ==
    IF url = ClipUrl
    THEN {Unsized(1), <<RawAt(1, Num(1080), Num(2097152))>>}
    ELSE IF url = BigUrl
    THEN {Unsized(MaxFormats),
          [k \in 1..MaxFormats |-> RawAt(k, Num(720), IF k = 2 THEN Num(2097152) ELSE U)]}
    ELSE {Unsized(0), Unsized(1), Unsized(2)}
         \cup {<<RawAt(1, Num(1080), Num(2097152)), RawAt(2, U, U)>>}
         \cup {<<RawAt(1, Num(720), U), RawAt(1, Num(480), U),
                 Raw(Str("ftp://host/f"), U, U, U, U, U, U, U, U), Null>>}

Meta(fl) == [t |-> "object", title |-> Str("T"), thumbnail |-> Undefined, formats |-> fl]

\* stdout of the extractor: one JSON document, several documents one per line
\* (the first line starting with "{" parses), or no line starting with "{".
Stdouts(url) ==
    {[kind |-> "json", value |-> Meta(Ret(fl))] : fl \in FormatLists(url)}
    \cup (IF url = ClipUrl THEN {}
          ELSE {[kind |-> "json", value |-> Meta(Undefined)],
                [kind |-> "json", value |-> Null],
                [kind |-> "lines", value |-> Meta(Ret(Unsized(1)))]})
    \cup {[kind |-> "garbage", value |-> Null]}

ExecResults(url) ==
    {[ok |-> TRUE, stdout |-> so, message |-> ""] : so \in Stdouts(url)}
    \cup {[ok |-> FALSE, stdout |-> [kind |-> "garbage", value |-> Null], message |-> m] :
            m \in {"Command failed: yt-dlp -j --no-warnings", "spawn yt-dlp ENOENT"}}

\* The parse of stdout: [threw, message, meta].
\* server.js, part_001: no line to parse gives null, and a null meta is thrown
\* as "yt-dlp returned no valid JSON".
ParseStdout_server(so) ==
    LET m == IF so.kind = "garbage" THEN Null ELSE so.value
    IN IF m.t = "null"
       THEN [threw |-> TRUE, message |-> "yt-dlp returned no valid JSON", meta |-> Null]
       ELSE [threw |-> FALSE, message |-> "", meta |-> m]

\* part_000: no line to parse rethrows the SyntaxError; a null meta makes
\* meta.formats throw a TypeError.
ParseStdout_part000(so) ==
    IF so.kind = "garbage"
    THEN [threw |-> TRUE, message |-> "Unexpected end of JSON input", meta |-> Null]
    ELSE IF so.value.t = "null"
    THEN [threw |-> TRUE, message |-> "Cannot read properties of null (reading 'formats')",
          meta |-> Null]
    ELSE [threw |-> FALSE, message |-> "", meta |-> so.value]

ParseStdout(v, so) ==
    IF v = "part_000" THEN ParseStdout_part000(so) ELSE ParseStdout_server(so)

\* meta.formats || []
RawFormatsOf(m) == IF m.formats.t = "returned" THEN m.formats.v ELSE <<>>

\* The payload object: every property is a tagged value, formats an array.
Payload_part001(m, entries) ==
    [title |-> m.title, thumbnail |-> m.thumbnail, formats |-> [t |-> "array", v |-> entries]]

Payload_server(m, entries) == [formats |-> [t |-> "array", v |-> entries]]

Payload(v, m, entries) ==
    IF v = "part_001" THEN Payload_part001(m, entries) ELSE Payload_server(m, entries)

-----------------------------------------------------------------------------
(* getContentLength.                                                        *)

\* parseInt(s, 10): the leading decimal digits of s, NaN when there are none.
LeadingDigits(s, stop) == IF stop = 1 THEN NaN ELSE Num(DigitsToNat(SubSeq(s, 1, stop - 1)))

ParseIntTrimmed(s) == LeadingDigits(s, DigitRun(s, 1))

parseInt(str) == ParseIntTrimmed(trimStart(str))

\* String(len).match(/\/(\d+)$/): the digits after the last "/" when they
\* run to the end of the string; "" when there is no match.
RECURSIVE MatchFrom(_, _)
MatchFrom(s, k) ==
    IF k > Len(s) THEN ""
    ELSE IF At(s, k) = "/" /\ IsAllDigits(SubSeq(s, k + 1, Len(s)))
    THEN SubSeq(s, k + 1, Len(s))
    ELSE MatchFrom(s, k + 1)

MatchTotal(s) == MatchFrom(s, 1)

\* The value the try block returns when axios.head resolved with the
\* content-length header cl.
HeadResult(cl) == IF Truthy(cl) THEN parseInt(JsString(cl)) ELSE Null

\* The value returned when the ranged GET resolved with the headers
\* content-range cr and content-length cl.
TotalOrLength(len, m) == IF m # "" THEN parseInt(m) ELSE JsOr(parseInt(len), Null)

RangeLength(len) == IF Truthy(len) THEN TotalOrLength(JsString(len), MatchTotal(JsString(len))) ELSE Null

RangeResult(cr, cl) == RangeLength(JsOr(cr, cl))

\* Whether a failed HEAD is followed by the ranged GET: part_000 only.
HasRangeFallback(v) == v = "part_000"

\* What the server of candidate k reports.
RemoteSize(k) == 1000 * k

HeadOutcomes(k) ==
    {[ok |-> FALSE, cl |-> U], [ok |-> TRUE, cl |-> U],
     [ok |-> TRUE, cl |-> Str(ToString(RemoteSize(k)))]}

RangeOutcomes(k) ==
    {[ok |-> FALSE, cr |-> U, cl |-> U], [ok |-> TRUE, cr |-> U, cl |-> U],
     [ok |-> TRUE, cr |-> Str("bytes 0-0/" \o ToString(RemoteSize(k))), cl |-> Str("1")]}

-----------------------------------------------------------------------------
(* The probe phase.                                                         *)

\* formats.filter(f => !f.filesize), as the indices of the candidates.  The
\* variant takes every candidate.
FilterUnsized_all(fs, k) == [j \in 1..Len(fs) |-> j]

RECURSIVE FilterUnsized(_, _)
FilterUnsized(fs, k) ==
    IF k > Len(fs) THEN <<>>
    ELSE (IF Truthy(fs[k].filesize) THEN <<>> ELSE <<k>>) \o FilterUnsized(fs, k + 1)

Min(a, b) == IF a < b THEN a ELSE b

\* part_000: toCheck.slice(i, i + concurrency), with a variant that takes all
\* the rest of toCheck.
Slice_unbounded(toCheck, i) == SubSeq(toCheck, i + 1, Len(toCheck))

Slice(toCheck, i) == SubSeq(toCheck, i + 1, Min(i + concurrency, Len(toCheck)))

\* server.js, part_001: .slice(0, 6)
SliceCap(toCheck) == SubSeq(toCheck, 1, Min(ProbeCap, Len(toCheck)))

SeqRange(q) == {q[k] : k \in 1..Len(q)}

\* The handler state after the probes: the payload p is built; with caching
\* the handler awaits redis.set, otherwise it sends the payload.
FinishWith(p, h) ==
    [pc |-> IF CachingOn THEN "cacheSet" ELSE "done",
     payload |-> Ret(p),
     send |-> IF CachingOn THEN <<>> ELSE <<Response(200, JSONStringify(p))>>,
     hist |-> IF CachingOn THEN [h EXCEPT !.sets = @ + 1] ELSE h]

Finish(v, m, fs, h) == FinishWith(Payload(v, m, MapAndSort(v, fs)), h)

\* Issue the HEAD requests of the candidates in slice.
IssueHeads(pr, h, slice) ==
    [pc |-> "probing", payload |-> NotCalled, send |-> <<>>,
     probe |-> [k \in DOMAIN pr |-> IF k \in SeqRange(slice) THEN "head" ELSE pr[k]],
     hist |-> [h EXCEPT !.heads =
                  [k \in DOMAIN @ |-> IF k \in SeqRange(slice) THEN @[k] + 1 ELSE @[k]]]]

\* part_000: the probe loop entered with loop variable i: either the next
\* slice is issued and the handler awaits it, or the loop is over and the
\* handler goes on to the payload.
ProbeLoop(v, m, fs, pr, toCheck, i, h) ==
    (IF i < Len(toCheck)
     THEN IssueHeads(pr, h, Slice(toCheck, i))
     ELSE Finish(v, m, fs, h) @@ [probe |-> pr])
    @@ [batch |-> [toCheck |-> toCheck, i |-> i], meta |-> m, formats |-> fs]

\* server.js, part_001: one Promise.all over the capped slice is awaited,
\* also when the slice is empty.
AwaitAll(m, fs, pr, toCheck, h) ==
    IssueHeads(pr, h, toCheck)
    @@ [batch |-> [toCheck |-> toCheck, i |-> 0], meta |-> m, formats |-> fs]

\* The handler from the filter of the unsized candidates to its next await.
StartProbes(v, m, fs, pr, toCheck, h) ==
    IF v = "part_000" THEN ProbeLoop(v, m, fs, pr, toCheck, 0, h)
    ELSE AwaitAll(m, fs, pr, toCheck, h)

\* The handler from the resolution of Promise.all to its next await.
AfterSlice(v, m, fs, pr, b, h) ==
    IF v = "part_000" THEN ProbeLoop(v, m, fs, pr, b.toCheck, b.i + concurrency, h)
    ELSE Finish(v, m, fs, h) @@ [probe |-> pr, batch |-> b, meta |-> m, formats |-> fs]

\* The catch block: the response is 500.
Caught(v, msg, h) ==
    [pc |-> "done", meta |-> NotCalled, formats |-> <<>>, probe |-> <<>>,
     batch |-> NotCalled, payload |-> NotCalled, hist |-> [h EXCEPT !.diagnostic = msg],
     send |-> <<Response(500, CatchBody(v, msg))>>]

\* toCheck: the unsized candidates (part_000), or the first ProbeCap of them.
ToCheck(v, unsized) == IF v = "part_000" THEN unsized ELSE SliceCap(unsized)

\* The handler from the normalized candidates fs to its next await.
WithFormats(v, m, fs, h) ==
    StartProbes(v, m, fs, [k \in 1..Len(fs) |-> "none"], ToCheck(v, FilterUnsized(fs, 1)),
              [h EXCEPT !.heads = [k \in 1..Len(fs) |-> 0],
                        !.returned = [k \in 1..Len(fs) |-> NotCalled]])

WithParsed(v, parsed, h) ==
    IF parsed.threw THEN Caught(v, parsed.message, h)
    ELSE WithFormats(v, parsed.meta,
                     normalizeAndFilterFormats(v, RawFormatsOf(parsed.meta)), h)

\* The handler from the resolution of execFileAsync to its next await.
AfterExec(v, result, h) ==
    IF ~result.ok THEN Caught(v, result.message, h)
    ELSE WithParsed(v, ParseStdout(v, result.stdout), h)

-----------------------------------------------------------------------------
(* Specification Spec: one request handled by the running variant.          *)

\* redis.set(cacheKey, value, "EX", 300): the entry stored, with its time to
\* live and the request that stored it (0: stored before the run).  The
\* variant stores the entry without time to live.
Entry_forever(value, by) == [t |-> "entry", value |-> value, ttl |-> 0, by |-> by]

Entry(value, by) == [t |-> "entry", value |-> value, ttl |-> TTL, by |-> by]

\* What the store may hold for the key before the request: nothing, a payload
\* stored by an earlier request, or a value that is no JSON text.
StoredPayload ==
    [formats |-> [t |-> "array",
                  v |-> <<[label |-> "720p", size |-> "1.5 MB", url |-> CandUrl(1),
                           type |-> "video"]>>]]

CacheContents == {NoEntry, Entry(JSONStringify(StoredPayload), 0), Entry(Str("<html>"), 0)}

Init ==
    /\ mode = "http"
    /\ variant \in Variants
    /\ API_KEY \in (IF variant = "part_001" THEN {Null} ELSE {Null, Str("k")})
    /\ ENABLE_CACHING \in (IF variant = "part_001" THEN {FALSE} ELSE BOOLEAN)
    /\ \E c \in (IF ENABLE_CACHING THEN CacheContents ELSE {NoEntry}) :
          cache = [k \in CacheKeys |-> IF k = "extract:" \o TargetUrl THEN c ELSE NoEntry]
    /\ \E q \in RequestInputs : req = [r \in Reqs |-> IF r = 1 THEN q ELSE NotCalled]
    /\ pc = [r \in Reqs |-> IF r = 1 THEN "arriving" ELSE "absent"]
    /\ meta = [r \in Reqs |-> NotCalled]
    /\ formats = [r \in Reqs |-> <<>>]
    /\ probe = [r \in Reqs |-> <<>>]
    /\ batch = [r \in Reqs |-> NotCalled]
    /\ payload = [r \in Reqs |-> NotCalled]
    /\ res = [r \in Reqs |-> <<>>]
    /\ hist = [r \in Reqs |-> NewHist]
    /\ NormIdle /\ SizeIdle /\ AsmIdle

configVars == <<variant, mode, API_KEY, ENABLE_CACHING, req>>
pureVars == <<normVars, sizeVars, asmVars>>

\* The handler state st becomes the state of request r; the responses st sends
\* are appended to those r has sent.
Becomes(r, st) ==
    /\ pc' = [pc EXCEPT ![r] = st.pc]
    /\ meta' = [meta EXCEPT ![r] = st.meta]
    /\ formats' = [formats EXCEPT ![r] = st.formats]
    /\ probe' = [probe EXCEPT ![r] = st.probe]
    /\ batch' = [batch EXCEPT ![r] = st.batch]
    /\ payload' = [payload EXCEPT ![r] = st.payload]
    /\ res' = [res EXCEPT ![r] = @ \o st.send]
    /\ hist' = [hist EXCEPT ![r] = st.hist]

Current(r) ==
    [pc |-> pc[r], meta |-> meta[r], formats |-> formats[r], probe |-> probe[r],
     batch |-> batch[r], payload |-> payload[r], send |-> <<>>, hist |-> hist[r]]

\* The call of execFileAsync.
CallExec(st) == [st EXCEPT !.pc = "extract", !.hist.execs = @ + 1]

\* The handler from its start to its first await: the validation.
Receive(r) ==
    /\ mode = "http"
    /\ pc[r] = "arriving"
    /\ LET q == req[r]
           st == Current(r)
       IN Becomes(r,
            IF ~Truthy(q.url)
            THEN [st EXCEPT !.pc = "done",
                            !.send = <<Response(400, ErrorBody("Missing url parameter"))>>]
            ELSE IF ApiKeyRejects(variant, q)
            THEN [st EXCEPT !.pc = "done",
                            !.send = <<Response(401, ErrorBody("Missing or invalid API key"))>>]
            ELSE IF ~URLParses(JsString(q.url))
            THEN [st EXCEPT !.pc = "done",
                            !.send = <<Response(400, ErrorBody("Invalid url"))>>]
            ELSE IF CachingOn
            THEN [st EXCEPT !.pc = "cacheGet", !.hist.gets = @ + 1]
            ELSE CallExec(st))
    /\ UNCHANGED <<configVars, cache, pureVars>>

\* `if (cached)` after redis.get resolved with cached.  The variant never
\* takes the stored value.
IsHit_never(cached) == FALSE

IsHit(cached) == cached.t = "entry"

\* redis.get settles: it resolves with the stored value or null, or rejects.
\* part_000 catches a rejection and a failed JSON.parse and goes on to the
\* extraction; in server.js both leave the handler as an exception.
CacheGetDone(r) ==
    /\ mode = "http"
    /\ pc[r] = "cacheGet"
    /\ \E ok \in BOOLEAN :
         LET cached == cache[CacheKey(req[r])]
             st == IF ok THEN [Current(r) EXCEPT !.hist.got = cached] ELSE Current(r)
             failed == [st EXCEPT !.hist.getFailed = TRUE]
         IN Becomes(r,
              IF ok /\ IsHit(cached) /\ JSONParses(cached.value)
              THEN [st EXCEPT !.pc = "done",
                              !.send = <<Response(200, JSONStringify(JSONParse(cached.value)))>>]
              ELSE IF ok /\ ~IsHit(cached)
              THEN CallExec(st)
              ELSE IF variant = "part_000"
              THEN CallExec(failed)
              ELSE [failed EXCEPT !.pc = "rejected"])
    /\ UNCHANGED <<configVars, cache, pureVars>>

\* execFileAsync settles; the handler runs to its next await.
ExecDone(r) ==
    /\ mode = "http"
    /\ pc[r] = "extract"
    /\ \E result \in ExecResults(JsString(req[r].url)) :
         Becomes(r, AfterExec(variant, result, hist[r]))
    /\ UNCHANGED <<configVars, cache, pureVars>>

\* getContentLength returned len for candidate k: `if (len) f.filesize = len`.
\* The variant lets a probe without result leave the handler as an exception
\* that the catch of the extraction answers.
ProbeReturned_throwing(st, k, len) ==
    IF Truthy(len)
    THEN [st EXCEPT !.probe[k] = "done", !.hist.returned[k] = len, !.formats[k].filesize = len]
    ELSE [st EXCEPT !.pc = "done", !.probe[k] = "done", !.hist.returned[k] = len,
                    !.send = <<Response(500, ErrorBody("Failed to extract formats"))>>]

ProbeReturned(st, k, len) ==
    [st EXCEPT !.probe[k] = "done",
               !.hist.returned[k] = len,
               !.formats[k].filesize = IF Truthy(len) THEN len ELSE @]

\* The HEAD request of candidate k settles.  When it fails part_000 issues the
\* ranged GET and the other two files return null.
HeadDone(r, k) ==
    /\ mode = "http"
    /\ pc[r] = "probing"
    /\ k \in DOMAIN probe[r]
    /\ probe[r][k] = "head"
    /\ \E o \in HeadOutcomes(k) :
         LET st == Current(r)
         IN Becomes(r,
              IF o.ok THEN ProbeReturned(st, k, HeadResult(o.cl))
              ELSE IF HasRangeFallback(variant)
              THEN [st EXCEPT !.probe[k] = "get"]
              ELSE ProbeReturned(st, k, Null))
    /\ UNCHANGED <<configVars, cache, pureVars>>

\* The ranged GET of candidate k settles (part_000).
RangeDone(r, k) ==
    /\ mode = "http"
    /\ pc[r] = "probing"
    /\ k \in DOMAIN probe[r]
    /\ probe[r][k] = "get"
    /\ \E o \in RangeOutcomes(k) :
         Becomes(r, ProbeReturned(Current(r), k,
                                  IF o.ok THEN RangeResult(o.cr, o.cl) ELSE Null))
    /\ UNCHANGED <<configVars, cache, pureVars>>

InFlight(r) == {k \in DOMAIN probe[r] : probe[r][k] \in {"head", "get"}}

\* Promise.all resolves: every probe of the awaited slice has returned.
\* part_000 advances i by concurrency and loops; the others go on.
\* The variant goes on without awaiting the probes.
ProbesSettled_early(r) ==
    /\ mode = "http"
    /\ pc[r] = "probing"
    /\ Becomes(r, AfterSlice(variant, meta[r], formats[r], probe[r], batch[r], hist[r]))
    /\ UNCHANGED <<configVars, cache, pureVars>>

ProbesSettled(r) ==
    /\ mode = "http"
    /\ pc[r] = "probing"
    /\ InFlight(r) = {}
    /\ Becomes(r, AfterSlice(variant, meta[r], formats[r], probe[r], batch[r], hist[r]))
    /\ UNCHANGED <<configVars, cache, pureVars>>

\* redis.set settles.  When it resolves the entry is stored with the TTL.
\* When it rejects the store has either not run the command or has run it and
\* the reply was lost (the connection dropped, the command timed out).
\* part_000 catches a rejection and sends the payload; in server.js the
\* rejection reaches the catch of the extraction, which sends 500.
CacheSetDone(r) ==
    /\ mode = "http"
    /\ pc[r] = "cacheSet"
    /\ \E ok, stored \in BOOLEAN :
         LET st == Current(r)
             p == payload[r].v
         IN /\ ok => stored
            /\ cache' = IF stored
                        THEN [cache EXCEPT ![CacheKey(req[r])] = Entry(JSONStringify(p), r)]
                        ELSE cache
            /\ Becomes(r,
                 IF ok
                 THEN [st EXCEPT !.pc = "done",
                                 !.send = <<Response(200, JSONStringify(p))>>]
                 ELSE IF variant = "part_000"
                 THEN [st EXCEPT !.pc = "done", !.hist.setFailed = TRUE,
                                 !.send = <<Response(200, JSONStringify(p))>>]
                 ELSE [st EXCEPT !.pc = "done", !.hist.setFailed = TRUE,
                                 !.send = <<Response(500, CatchBody(variant, "Connection is closed."))>>])
    /\ UNCHANGED <<configVars, pureVars>>

\* The time to live of the entry under key k elapses: the store drops it.
Expire(k) ==
    /\ mode = "http"
    /\ cache[k].t = "entry"
    /\ cache[k].ttl > 0
    /\ cache' = [cache EXCEPT ![k] = Expired]
    /\ UNCHANGED <<configVars, pureVars, pc, meta, formats, probe, batch, payload, res, hist>>

Next ==
    \/ \E r \in Reqs :
        \/ Receive(r)
        \/ CacheGetDone(r)
        \/ ExecDone(r)
        \/ \E k \in 1..(MaxFormats + 1) : HeadDone(r, k)
        \/ \E k \in 1..(MaxFormats + 1) : RangeDone(r, k)
        \/ ProbesSettled(r)
        \/ CacheSetDone(r)
    \/ \E k \in CacheKeys : Expire(k)

Spec == Init /\ [][Next]_vars

Handled(r) == mode = "http" /\ pc[r] \in {"done", "rejected"}

\* Both credentials of the request are absent or differ from the configured key.
NoValidKey(q) ==
    /\ (~Truthy(q.headerKey) \/ q.headerKey # API_KEY)
    /\ (~Truthy(q.queryKey) \/ q.queryKey # API_KEY)

\* C3: with caching, a failure of the cache read or of the cache write never
\* makes the request fail: after a failed read the pipeline runs, and a
\* request whose pipeline built a payload is answered 200 with that payload.
C3_CacheAdvisory ==
    \A r \in Reqs :
        (mode = "http" /\ pc[r] # "absent" /\ (hist[r].getFailed \/ hist[r].setFailed)) =>
            /\ pc[r] # "rejected"
            /\ (pc[r] = "done" /\ payload[r].t = "returned") =>
                  res[r] = <<Response(200, JSONStringify(payload[r].v))>>

\* C9: with an API key configured, a request that carries a url and no valid
\* key is answered 401 "Missing or invalid API key", and the handler neither
\* reads the cache nor starts the extraction for it.
C9_ApiKeyRequired ==
    \A r \in Reqs :
        (mode = "http" /\ pc[r] \notin {"absent", "arriving"} /\ Truthy(API_KEY)
           /\ Truthy(req[r].url) /\ NoValidKey(req[r])) =>
            /\ res[r] = <<Response(401, ErrorBody("Missing or invalid API key"))>>
            /\ hist[r].gets = 0
            /\ hist[r].execs = 0

\* The request made no cache read, no cache write, no extractor call and no
\* probe.
NoUpstream(r) ==
    /\ hist[r].gets = 0
    /\ hist[r].sets = 0
    /\ hist[r].execs = 0
    /\ hist[r].heads = <<>>
    /\ probe[r] = <<>>

Started(r) == mode = "http" /\ pc[r] \notin {"absent", "arriving"}

\* C11 as stated: a request without url is answered 400 "Missing url
\* parameter", a request whose url does not parse is answered 400 "Invalid
\* url", and neither reads or writes the cache, runs the extractor or probes.
C11_ClientErrors ==
    \A r \in Reqs :
        Started(r) =>
            /\ ~Truthy(req[r].url) =>
                  /\ res[r] = <<Response(400, ErrorBody("Missing url parameter"))>>
                  /\ NoUpstream(r)
            /\ req[r].url = Str("not a url") =>
                  /\ res[r] = <<Response(400, ErrorBody("Invalid url"))>>
                  /\ NoUpstream(r)

\* The credential the key check of part_000 looks at: the x-api-key header,
\* or the apikey parameter when there is no header.
Credential(q) == IF Truthy(q.headerKey) THEN q.headerKey ELSE q.queryKey

\* C11 amended: as C11, but a request whose url does not parse is answered
\* 400 "Invalid url" only when the API key check of the running file lets it
\* pass; one the check rejects (a key is configured and the credential is
\* missing or different) is answered 401, also with no upstream call.
C11_ClientErrorsAfterKeyCheck ==
    \A r \in Reqs :
        Started(r) =>
            /\ ~Truthy(req[r].url) =>
                  /\ res[r] = <<Response(400, ErrorBody("Missing url parameter"))>>
                  /\ NoUpstream(r)
            /\ req[r].url = Str("not a url") =>
                  /\ NoUpstream(r)
                  /\ res[r] = IF variant = "part_000" /\ Truthy(API_KEY)
                                 /\ Credential(req[r]) # API_KEY
                              THEN <<Response(401, ErrorBody("Missing or invalid API key"))>>
                              ELSE <<Response(400, ErrorBody("Invalid url"))>>

\* C11 witness: a request whose url does not parse was answered 400 "Invalid
\* url" by a server with an API key, the request carrying the key.
C11_Witness ==
    \E r \in Reqs :
        /\ Started(r)
        /\ variant = "part_000" /\ API_KEY = Str("k")
        /\ req[r].url = Str("not a url") /\ req[r].headerKey = Str("k")
        /\ res[r] = <<Response(400, ErrorBody("Invalid url"))>>
        /\ NoUpstream(r)

\* C12: with caching, a request whose cache read returns a stored payload is
\* answered 200 with exactly that payload, and it runs no extractor, issues
\* no probe and does not write the cache.
C12_CacheHitShortCircuits ==
    \A r \in Reqs :
        (Started(r) /\ pc[r] # "cacheGet" /\ CachingOn
           /\ hist[r].got.t = "entry" /\ JSONParses(hist[r].got.value)) =>
            /\ pc[r] = "done"
            /\ res[r] = <<Response(200, hist[r].got.value)>>
            /\ hist[r].execs = 0
            /\ hist[r].sets = 0
            /\ hist[r].heads = <<>> /\ probe[r] = <<>>

\* C12 witness: the stored payload was returned with status 200.
C12_Witness ==
    \E r \in Reqs :
        /\ Started(r) /\ CachingOn
        /\ hist[r].got = Entry(JSONStringify(StoredPayload), 0)
        /\ res[r] = <<Response(200, JSONStringify(StoredPayload))>>
        /\ hist[r].execs = 0

\* C16: every request the handler has finished with has received exactly one
\* response, with status 200, 400, 401 or 500.
C16_ExactlyOneResponse ==
    \A r \in Reqs :
        Handled(r) =>
            /\ Len(res[r]) = 1
            /\ res[r][1].status \in {200, 400, 401, 500}

-----------------------------------------------------------------------------
(* Specification SpecProbes: one request for the page with many formats, on *)
(* a server without API key and without cache store.                        *)

InitProbes ==
    /\ mode = "http"
    /\ variant \in Variants
    /\ API_KEY = Null
    /\ ENABLE_CACHING = FALSE
    /\ cache = [k \in CacheKeys |-> NoEntry]
    /\ req = [r \in Reqs |-> IF r = 1
                             THEN [url |-> Str(BigUrl), headerKey |-> U, queryKey |-> U]
                             ELSE NotCalled]
    /\ pc = [r \in Reqs |-> IF r = 1 THEN "arriving" ELSE "absent"]
    /\ meta = [r \in Reqs |-> NotCalled]
    /\ formats = [r \in Reqs |-> <<>>]
    /\ probe = [r \in Reqs |-> <<>>]
    /\ batch = [r \in Reqs |-> NotCalled]
    /\ payload = [r \in Reqs |-> NotCalled]
    /\ res = [r \in Reqs |-> <<>>]
    /\ hist = [r \in Reqs |-> NewHist]
    /\ NormIdle /\ SizeIdle /\ AsmIdle

NextProbes ==
    \E r \in Reqs :
        \/ Receive(r)
        \/ ExecDone(r)
        \/ \E k \in 1..(MaxFormats + 1) : HeadDone(r, k)
        \/ \E k \in 1..(MaxFormats + 1) : RangeDone(r, k)
        \/ ProbesSettled(r)

SpecProbes == InitProbes /\ [][NextProbes]_vars

\* The candidates of r that had no size after the normalization: those still
\* without one and those a probe was issued for.
UnsizedAtStart(r) ==
    {k \in 1..Len(formats[r]) : ~Truthy(formats[r][k].filesize) \/ hist[r].heads[k] > 0}

\* The number of unsized candidates of r that precede candidate k.
Ahead(r, k) == Cardinality({j \in UnsizedAtStart(r) : j < k})

\* C4: during the size resolution of a request at most 6 probes are in flight,
\* and a candidate beyond the first 6 unsized ones is not probed before the
\* probes of the candidates of the windows ahead of it have completed.
C4_ProbeWindow ==
    \A r \in Reqs :
        (mode = "http" /\ pc[r] = "probing") =>
            /\ Cardinality(InFlight(r)) <= 6
            /\ \A a, b \in UnsizedAtStart(r) :
                  (Ahead(r, a) \div 6 < Ahead(r, b) \div 6 /\ probe[r][b] # "none") =>
                      probe[r][a] = "done"

\* C4 witness: 6 probes are in flight while a seventh unsized candidate waits
\* for them.
C4_Witness ==
    \E r \in Reqs :
        /\ mode = "http" /\ pc[r] = "probing"
        /\ Cardinality(InFlight(r)) = 6
        /\ \E b \in UnsizedAtStart(r) :
              /\ Ahead(r, b) = 6
              /\ probe[r][b] = "none"

\* The entry of the 200 response of r made from candidate k.
EntryOf(r, k) ==
    LET entries == res[r][1].body.v.formats.v
    IN entries[CHOOSE j \in 1..Len(entries) : entries[j].url = formats[r][k].url]

Probed(r) == {k \in 1..Len(formats[r]) : hist[r].heads[k] > 0}

\* C7: a probe without result is absorbed at its candidate: the candidate's
\* size stays null and is reported "Unknown", the request is answered 200, and
\* every probed candidate is reported with the size its own probe returned.
C7_ProbeFailureAbsorbed ==
    \A r \in Reqs :
        (Handled(r) /\ Probed(r) # {}) =>
            /\ Len(res[r]) = 1
            /\ res[r][1].status = 200
            /\ \A k \in Probed(r) :
                  /\ hist[r].returned[k].t # "notcalled"
                  /\ EntryOf(r, k).size = humanFileSize(hist[r].returned[k])
                  /\ hist[r].returned[k] = Null =>
                        /\ formats[r][k].filesize = Null
                        /\ EntryOf(r, k).size = "Unknown"

\* C7 witness: the probe of candidate 1 gave no result, the probe of
\* candidate 2 returned a size, and the request was answered 200.
C7_Witness ==
    \E r \in Reqs :
        /\ Handled(r)
        /\ Len(formats[r]) >= 2
        /\ {1, 2} \subseteq Probed(r)
        /\ hist[r].returned[1] = Null
        /\ hist[r].returned[2] = Num(RemoteSize(2))
        /\ res[r] # <<>> /\ res[r][1].status = 200
        /\ EntryOf(r, 1).size = "Unknown"
        /\ EntryOf(r, 2).size = "2.0 KB"

-----------------------------------------------------------------------------
(* Specification SpecPair: concurrent requests for one page, on a server    *)
(* with the cache store and without API key, while entries may expire.      *)

InitPair ==
    /\ mode = "http"
    /\ variant \in {"server", "part_000"}
    /\ API_KEY = Null
    /\ ENABLE_CACHING = TRUE
    /\ cache = [k \in CacheKeys |-> NoEntry]
    /\ req = [r \in Reqs |-> [url |-> Str(ClipUrl), headerKey |-> U, queryKey |-> U]]
    /\ pc = [r \in Reqs |-> "arriving"]
    /\ meta = [r \in Reqs |-> NotCalled]
    /\ formats = [r \in Reqs |-> <<>>]
    /\ probe = [r \in Reqs |-> <<>>]
    /\ batch = [r \in Reqs |-> NotCalled]
    /\ payload = [r \in Reqs |-> NotCalled]
    /\ res = [r \in Reqs |-> <<>>]
    /\ hist = [r \in Reqs |-> NewHist]
    /\ NormIdle /\ SizeIdle /\ AsmIdle

NextPair == Next

SpecPair == InitPair /\ [][NextPair]_vars

\* C13: an entry stored by a request that missed carries the 300-second time
\* to live and the payload of that request; a request whose read returns the
\* entry (before it expired, no other write in between) is answered 200 with
\* a payload equal to the one stored; a request whose read comes after the
\* time to live has elapsed gets nothing and runs the extraction again.
C13_CacheRoundTrip ==
    /\ \A k \in CacheKeys :
          cache[k].t = "entry" =>
              /\ cache[k].ttl = 300
              /\ cache[k].by \in Reqs
              /\ hist[cache[k].by].got.t # "entry"
              /\ cache[k].value = JSONStringify(payload[cache[k].by].v)
    /\ \A r \in Reqs :
          (Started(r) /\ pc[r] # "cacheGet") =>
              /\ hist[r].got.t = "entry" =>
                    /\ res[r] = <<Response(200, JSONStringify(payload[hist[r].got.by].v))>>
                    /\ hist[r].execs = 0
              /\ hist[r].got = Expired => hist[r].execs = 1

\* C13 witness: a request was answered from the cache with the payload, of one
\* format, that another request had stored.
C13_Witness ==
    \E r, w \in Reqs :
        /\ r # w
        /\ hist[w].sets = 1 /\ payload[w].t = "returned"
        /\ Len(payload[w].v.formats.v) = 1
        /\ hist[r].got.t = "entry" /\ hist[r].got.by = w /\ hist[r].got.ttl = 300
        /\ res[r] = <<Response(200, JSONStringify(payload[w].v))>>

\* A read made after the time to live of a stored entry had elapsed returned
\* nothing, and the request ran the extraction.
C13_ReadAfterExpiry ==
    \E r, w \in Reqs :
        /\ r # w
        /\ hist[w].sets = 1
        /\ hist[r].got = Expired
        /\ hist[r].execs = 1

\* The extraction of request r failed and the catch block answered.
ExtractionFailed(r) == pc[r] = "done" /\ hist[r].execs = 1 /\ hist[r].diagnostic # ""

\* C14: a request whose extraction fails is answered 500, and two requests
\* whose extractions fail with different diagnostics receive the same body.
C14_GenericExtractionError ==
    \A r1, r2 \in Reqs :
        (mode = "http" /\ ExtractionFailed(r1) /\ ExtractionFailed(r2)) =>
            /\ Len(res[r1]) = 1
            /\ res[r1][1].status = 500
            /\ res[r1] = res[r2]

\* C18: under every interleaving of the requests for one url, the entry of
\* the key is absent or is the complete payload that one of the requests
\* sent to its client with status 200.
C18_EntryIsASentPayload ==
    \A k \in CacheKeys :
        (mode = "http" /\ cache[k].t = "entry") =>
            \E w \in Reqs :
                /\ CacheKey(req[w]) = k
                /\ pc[w] = "done"
                /\ res[w] = <<Response(200, cache[k].value)>>

\* C20: a request answered with a 4xx or 500 status has stored nothing: every
\* entry was stored by a request for its key whose extraction succeeded and
\* that is answered 200 with the payload stored.
C20_FailedRequestLeavesCache ==
    /\ \A r \in Reqs :
          (Handled(r) /\ res[r] # <<>> /\ res[r][1].status \in {400, 401, 500}) =>
              \A k \in CacheKeys : cache[k].t = "entry" => cache[k].by # r
    /\ \A k \in CacheKeys :
          (mode = "http" /\ cache[k].t = "entry" /\ cache[k].by \in Reqs) =>
              LET w == cache[k].by
              IN /\ CacheKey(req[w]) = k
                 /\ hist[w].execs = 1 /\ hist[w].diagnostic = ""
                 /\ payload[w].t = "returned"
                 /\ cache[k].value = JSONStringify(payload[w].v)
                 /\ Handled(w) => res[w] = <<Response(200, cache[k].value)>>

-----------------------------------------------------------------------------
(* The probe phase, checked under SpecProbes.                               *)

\* The state of the probe of candidate k in the probe record p of a request.
StatusIn(p, k) == IF k \in DOMAIN p THEN p[k] ELSE "none"

\* C15: in the file with the ranged GET, a candidate gets at most one HEAD,
\* then at most one ranged GET, issued only when its HEAD has completed; the
\* GET is issued when the HEAD fails and when it succeeds without a
\* content-length, so a HEAD ends the probe only by returning a length.
C15_FallbackAfterHead ==
    [][\A r \in Reqs : \A k \in 1..(MaxFormats + 1) :
         (mode = "http" /\ variant = "part_000") =>
            /\ (StatusIn(probe'[r], k) = "head" /\ StatusIn(probe[r], k) # "head")
                  => StatusIn(probe[r], k) = "none"
            /\ (StatusIn(probe'[r], k) = "get" /\ StatusIn(probe[r], k) # "get")
                  => StatusIn(probe[r], k) = "head"
            /\ (StatusIn(probe[r], k) = "head" /\ StatusIn(probe'[r], k) = "done")
                  => Truthy(hist'[r].returned[k])]_vars

\* The entry of the payload of r made from candidate k.
PayloadEntry(r, k) ==
    LET entries == payload[r].v.formats.v
    IN entries[CHOOSE j \in 1..Len(entries) : entries[j].url = formats[r][k].url]

\* C17: when the payload of a request is built no probe of the request is
\* in flight: every probe issued has returned, the size it returned is the
\* size of its candidate, and the payload reports the sizes the candidates
\* have, which no probe changes afterwards.
C17_PayloadAfterAllProbes ==
    \A r \in Reqs :
        (mode = "http" /\ payload[r].t = "returned") =>
            /\ InFlight(r) = {}
            /\ Len(payload[r].v.formats.v) = Len(formats[r])
            /\ \A k \in 1..Len(formats[r]) :
                  /\ PayloadEntry(r, k).size = humanFileSize(formats[r][k].filesize)
                  /\ hist[r].heads[k] > 0 =>
                        /\ probe[r][k] = "done"
                        /\ hist[r].returned[k].t # "notcalled"
                        /\ Truthy(hist[r].returned[k]) =>
                              formats[r][k].filesize = hist[r].returned[k]

\* C17 witness: the payload was built after the probes of two windows, the
\* seventh candidate's among them, had returned.
C17_Witness ==
    \E r \in Reqs :
        /\ mode = "http" /\ payload[r].t = "returned"
        /\ Len(formats[r]) = 7
        /\ \A k \in 1..7 : hist[r].heads[k] = 1 /\ probe[r][k] = "done"
        /\ hist[r].returned[7] = Num(RemoteSize(7))
        /\ hist[r].returned[1] = Null
        /\ PayloadEntry(r, 7).size = "6.8 KB"

\* C19: the probe phase probes only candidates without size, in the order
\* of the sequence, and changes nothing but the size of a candidate whose
\* probe returns: a candidate with a declared size is not probed and keeps
\* its size, and url, type, label, length and order stay as they are.
C19_ProbePhaseFrame ==
    /\ [](\A r \in Reqs :
            (mode = "http" /\ pc[r] = "probing") =>
                /\ \A k \in 1..Len(formats[r]) :
                      probe[r][k] \in {"head", "get"} => ~Truthy(formats[r][k].filesize)
                /\ \A a, b \in 1..Len(formats[r]) :
                      (a < b /\ probe[r][b] # "none" /\ probe[r][a] = "none")
                          => Truthy(formats[r][a].filesize))
    /\ [][\A r \in Reqs :
            (mode = "http" /\ pc[r] = "probing") =>
                /\ Len(formats'[r]) = Len(formats[r])
                /\ \A k \in 1..Len(formats[r]) :
                      /\ [formats'[r][k] EXCEPT !.filesize = formats[r][k].filesize]
                            = formats[r][k]
                      /\ formats'[r][k].filesize # formats[r][k].filesize =>
                            /\ ~Truthy(formats[r][k].filesize)
                            /\ probe[r][k] \in {"head", "get"}
                            /\ probe'[r][k] = "done"]_vars

\* C19 witness: of seven candidates the second has a declared size and was
\* not probed; the first was probed and got the size its probe returned.
C19_Witness ==
    \E r \in Reqs :
        /\ mode = "http" /\ pc[r] = "done" /\ Len(formats[r]) = 7
        /\ hist[r].heads[2] = 0 /\ probe[r][2] = "none"
        /\ formats[r][2].filesize = Num(2097152)
        /\ hist[r].heads[1] = 1 /\ formats[r][1].filesize = Num(RemoteSize(1))
        /\ formats[r][1].label = "720p" /\ formats[r][1].url = CandUrl(1)

====
